---- MODULE Spec2Model ----
(***************************************************************************)
(* Verification model of the python_module_* teaching corpus.  Each        *)
(* exercise is an independent program, so each gets its own specification  *)
(* (SpecSpell, SpecGarden, SpecTournament, SpecRegister, SpecMatches,      *)
(* SpecCombat, SpecElite, SpecDeck, SpecRetry, SpecPipe, SpecStream,       *)
(* SpecHarvest) over its own group of variables; the variables of the      *)
(* other exercises keep their initial value.                               *)
(*                                                                         *)
(* Python strings are modelled as sequences of one-character strings, so   *)
(* that lower(), split(), startswith() and the substring test `in` are     *)
(* computed rather than assumed.                                           *)
(***************************************************************************)
EXTENDS Integers, Sequences, FiniteSets, TLC

VARIABLES
    \* alchemy/grimoire: one record_spell call
    spell_name, ingredients, spell_result,
    \* module 02 ex5: GardenManager
    plants, water_tank, garden_ret,
    \* module 07 ex4: TournamentCard objects and the TournamentPlatform
    heap, cards, matches_played, registered_ok, t_ret,
    \* module 07 ex2: one EliteCard, and the last defend/cast/channel call
    elite, c_ret,
    \* module 07 ex1: a Deck and the drawing loop of main
    deck_cards, added, disturbed, phase, draws, n_start, loop_draws,
    \* module 10 ex4: one function wrapped by retry_spell
    r_func, r_max, r_attempt, r_count, r_log, r_pc, r_result, r_wrapper_calls,
    \* module 05 ex2: one ProcessingPipeline and its last call
    p_stages, p_batches_processed, p_error_count, p_executes, p_propagated, p_ret,
    \* module 05 ex1: one stream of each kind and the last process_batch call
    sensor_stream, transaction_stream, event_stream, stream_calls, stream_ret,
    \* module 00 ex5: one run of a harvest counter
    h_program, h_pc, h_line, h_days, h_stack, h_i, h_printed, h_rejected, h_accepted_at

spellVars == <<spell_name, ingredients, spell_result>>
gardenVars == <<plants, water_tank, garden_ret>>
tournVars == <<heap, cards, matches_played, registered_ok, t_ret>>

eliteVars == <<elite, c_ret>>
deckVars == <<deck_cards, added, disturbed, phase, draws, n_start, loop_draws>>

retryVars == <<r_func, r_max, r_attempt, r_count, r_log, r_pc, r_result, r_wrapper_calls>>

pipeVars == <<p_stages, p_batches_processed, p_error_count, p_executes, p_propagated, p_ret>>

streamVars == <<sensor_stream, transaction_stream, event_stream, stream_calls, stream_ret>>

harvestVars == <<h_program, h_pc, h_line, h_days, h_stack, h_i, h_printed, h_rejected, h_accepted_at>>

vars == <<spellVars, gardenVars, tournVars, eliteVars, deckVars, retryVars, pipeVars, streamVars, harvestVars>>

\* what the actions of one exercise leave alone
notSpell == <<gardenVars, tournVars, eliteVars, deckVars, retryVars, pipeVars, streamVars, harvestVars>>
notGarden == <<spellVars, tournVars, eliteVars, deckVars, retryVars, pipeVars, streamVars, harvestVars>>
notTourn == <<spellVars, gardenVars, eliteVars, deckVars, retryVars, pipeVars, streamVars, harvestVars>>
notElite == <<spellVars, gardenVars, tournVars, deckVars, retryVars, pipeVars, streamVars, harvestVars>>
notCombat == <<spellVars, gardenVars, deckVars, retryVars, pipeVars, streamVars, harvestVars>>
notDeck == <<spellVars, gardenVars, tournVars, eliteVars, retryVars, pipeVars, streamVars, harvestVars>>
notRetry == <<spellVars, gardenVars, tournVars, eliteVars, deckVars, pipeVars, streamVars, harvestVars>>
notPipe == <<spellVars, gardenVars, tournVars, eliteVars, deckVars, retryVars, streamVars, harvestVars>>
notStream == <<spellVars, gardenVars, tournVars, eliteVars, deckVars, retryVars, pipeVars, harvestVars>>
notHarvest == <<spellVars, gardenVars, tournVars, eliteVars, deckVars, retryVars, pipeVars, streamVars>>

(***************************************************************************)
(* Strings                                                                 *)
(***************************************************************************)
UpperChars ==
    <<"A","B","C","D","E","F","G","H","I","J","K","L","M",
      "N","O","P","Q","R","S","T","U","V","W","X","Y","Z">>

LowerChars ==
    <<"a","b","c","d","e","f","g","h","i","j","k","l","m",
      "n","o","p","q","r","s","t","u","v","w","x","y","z">>

\* str.lower() on one character
LowerChar(c) ==
    IF \E i \in 1..Len(UpperChars) : UpperChars[i] = c
    THEN LowerChars[CHOOSE i \in 1..Len(UpperChars) : UpperChars[i] = c]
    ELSE c

\* str.lower()
Lower(s) == [i \in 1..Len(s) |-> LowerChar(s[i])]

\* s.startswith(p)
StartsWith(s, p) == Len(p) <= Len(s) /\ SubSeq(s, 1, Len(p)) = p

\* sub in s
Contains(s, sub) ==
    \E i \in 1..(Len(s) + 1) :
        i + Len(sub) - 1 <= Len(s) /\ SubSeq(s, i, i + Len(sub) - 1) = sub

IsSpace(c) == c = " "

\* str.strip()
RECURSIVE LStrip(_)
LStrip(s) == IF s # <<>> /\ IsSpace(Head(s)) THEN LStrip(Tail(s)) ELSE s

RECURSIVE RStrip(_)
RStrip(s) ==
    IF s # <<>> /\ IsSpace(s[Len(s)]) THEN RStrip(SubSeq(s, 1, Len(s) - 1)) ELSE s

Strip(s) == RStrip(LStrip(s))

\* all sequences over alphabet a of length at most n
SeqsUpTo(a, n) == UNION {[1..k -> a] : k \in 0..n}

(***************************************************************************)
(* python_module_06/alchemy/grimoire                                       *)
(***************************************************************************)
MaxIngredientLen == 3

valid_elements ==
    << <<"f","i","r","e">>, <<"w","a","t","e","r">>,
       <<"e","a","r","t","h">>, <<"a","i","r">> >>

S_VALID == <<"V","A","L","I","D">>
S_DashValid == <<" ","-"," ","V","A","L","I","D">>
S_DashInvalid == <<" ","-"," ","I","N","V","A","L","I","D">>
S_Recorded == <<"S","p","e","l","l"," ","r","e","c","o","r","d","e","d",":"," ">>
S_Rejected == <<"S","p","e","l","l"," ","r","e","j","e","c","t","e","d",":"," ">>

\* any(element in ingredients_lower for element in valid_elements)
HasElement(ingr) ==
    \E k \in 1..Len(valid_elements) : Contains(Lower(ingr), valid_elements[k])

validate_ingredients(ingr) ==
    IF HasElement(ingr) THEN ingr \o S_DashValid ELSE ingr \o S_DashInvalid

record_spell(name, ingr) ==
    LET validation_result == validate_ingredients(ingr) IN
    IF Contains(validation_result, S_VALID)
    THEN S_Recorded \o name \o <<" ","(">> \o validation_result \o <<")">>
    ELSE S_Rejected \o name \o <<" ","(">> \o validation_result \o <<")">>

\* inputs of ft_circular_curse.py
S_FireAir == <<"f","i","r","e"," ","a","i","r">>
S_Shadow == <<"s","h","a","d","o","w">>
S_Air == <<"a","i","r">>
S_Fireball == <<"F","i","r","e","b","a","l","l">>
S_DarkMagic == <<"D","a","r","k"," ","M","a","g","i","c">>

IngredientAlphabet == {"a", "i", "r", "A", "s"}

IngredientInputs ==
    SeqsUpTo(IngredientAlphabet, MaxIngredientLen) \cup {S_FireAir, S_Shadow, S_Air}

SpellNames == {S_Fireball, S_DarkMagic}

SpellIdle ==
    /\ spell_name = <<>>
    /\ ingredients = <<>>
    /\ spell_result = <<>>

InitSpell ==
    /\ spell_name \in SpellNames
    /\ ingredients \in IngredientInputs
    /\ spell_result = <<>>

\* one call record_spell(spell_name, ingredients); a message is never empty
RecordSpell ==
    /\ spell_result = <<>>
    /\ spell_result' = record_spell(spell_name, ingredients)
    /\ UNCHANGED <<spell_name, ingredients>>
    /\ UNCHANGED notSpell

(***************************************************************************)
(* python_module_02/ex5: GardenManager                                     *)
(***************************************************************************)
MaxPlants == 7

S_Tomato == <<"t","o","m","a","t","o">>
S_Lettuce == <<"l","e","t","t","u","c","e">>

PlantNames ==
    { <<>>, <<" ">>, <<" "," ">>, S_Tomato, S_Lettuce, <<"a">>, <<"b">>,
      <<"c">>, <<" ","d">>, <<"e"," ">>, <<"f">> }

\* (water_need, sun_need) pairs passed to add_plant; (5, 8) are the defaults
PlantNeeds == { <<5, 8>>, <<7, 6>> }

TankFull == 100
TankMin == 20
WaterPerPlant == 5

GardenIdle ==
    /\ plants = <<>>
    /\ water_tank = TankFull
    /\ garden_ret = "none"

\* GardenManager.__init__
InitGarden == GardenIdle

\* GardenManager.add_plant(name, water_need, sun_need)
add_plant(name, need) ==
    IF name = <<>> \/ Strip(name) = <<>>
    THEN /\ garden_ret' = "PlantError"
         /\ UNCHANGED <<plants, water_tank>>
    ELSE /\ name \in DOMAIN plants \/ Cardinality(DOMAIN plants) < MaxPlants
         /\ plants' = [n \in DOMAIN plants \cup {name} |->
                         IF n = name
                         THEN [water |-> need[1], sun |-> need[2], healthy |-> TRUE]
                         ELSE plants[n]]
         /\ garden_ret' = "ok"
         /\ UNCHANGED water_tank

AddPlant ==
    /\ \E name \in PlantNames, need \in PlantNeeds : add_plant(name, need)
    /\ UNCHANGED notGarden

\* the for loop of water_plants: one subtraction per plant
RECURSIVE WaterLoop(_, _)
WaterLoop(todo, tank) ==
    IF todo = {} THEN tank
    ELSE LET p == CHOOSE x \in todo : TRUE IN
         WaterLoop(todo \ {p}, tank - WaterPerPlant)

\* GardenManager.water_plants()
WaterPlants ==
    /\ IF water_tank < TankMin
       THEN /\ garden_ret' = "WaterError"
            /\ UNCHANGED <<plants, water_tank>>
       ELSE /\ water_tank' = WaterLoop(DOMAIN plants, water_tank)
            /\ garden_ret' = "ok"
            /\ UNCHANGED plants
    /\ UNCHANGED notGarden

(***************************************************************************)
(* python_module_07/ex4: TournamentCard and TournamentPlatform             *)
(***************************************************************************)
MaxCards == 2
MaxRegistered == 4
MaxGames == 4

DigitChars == <<"0","1","2","3","4","5","6","7","8","9">>

\* str(n) for n >= 0
RECURSIVE DigitsOf(_)
DigitsOf(n) ==
    IF n < 10 THEN <<DigitChars[n + 1]>>
    ELSE DigitsOf(n \div 10) \o <<DigitChars[(n % 10) + 1]>>

RECURSIVE ZeroPad(_, _)
ZeroPad(s, width) == IF Len(s) >= width THEN s ELSE ZeroPad(<<"0">> \o s, width)

\* f"{n:03d}"
Format03d(n) == ZeroPad(DigitsOf(n), 3)

\* str.split(): the words between runs of whitespace
RECURSIVE SplitFrom(_, _, _)
SplitFrom(s, cur, acc) ==
    IF s = <<>> THEN (IF cur = <<>> THEN acc ELSE Append(acc, cur))
    ELSE IF IsSpace(Head(s))
         THEN SplitFrom(Tail(s), <<>>, IF cur = <<>> THEN acc ELSE Append(acc, cur))
         ELSE SplitFrom(Tail(s), Append(cur, Head(s)), acc)

Split(s) == SplitFrom(s, <<>>, <<>>)

S_card == <<"c","a","r","d">>
S_FireDragon == <<"F","i","r","e"," ","D","r","a","g","o","n">>
S_IceWizard == <<"I","c","e"," ","W","i","z","a","r","d">>
S_IceDragon == <<"I","c","e"," ","D","r","a","g","o","n">>
S_Dragon001 == <<"D","r","a","g","o","n","_","0","0","1">>
S_ghost001 == <<"g","h","o","s","t","_","0","0","1">>

BaseRating == 1200
CostPivot == 7
CostStep == 50
rating_per_win == 16
rating_per_loss == 16

\* TournamentCard.calculate_rating: the card with its rating recomputed
calculate_rating(card) ==
    LET base_rating == BaseRating - ((CostPivot - card.cost) * CostStep) IN
    [card EXCEPT !.rating =
        base_rating + (card.wins * rating_per_win) - (card.losses * rating_per_loss)]

\* TournamentCard.__init__ with valid arguments (rarity is only displayed)
TournamentCard(name, cost, attack, health, defense) ==
    calculate_rating(
        [name |-> name, cost |-> cost, attack_power |-> attack,
         max_health |-> health, health |-> health, defense |-> defense,
         wins |-> 0, losses |-> 0, rating |-> 0])

\* TournamentCard.update_wins on object o of heap h
update_wins(h, o, wins) ==
    IF wins < 0
    THEN [outcome |-> "ValueError", heap |-> h]
    ELSE [outcome |-> "ok",
          heap |-> [h EXCEPT ![o] = calculate_rating([@ EXCEPT !.wins = @ + wins])]]

update_losses_NoRecalc(h, o, losses) ==
    IF losses < 0
    THEN [outcome |-> "ValueError", heap |-> h]
    ELSE [outcome |-> "ok", heap |-> [h EXCEPT ![o].losses = @ + losses]]

\* TournamentCard.update_losses on object o of heap h
update_losses(h, o, losses) ==
    IF losses < 0
    THEN [outcome |-> "ValueError", heap |-> h]
    ELSE [outcome |-> "ok",
          heap |-> [h EXCEPT ![o] = calculate_rating([@ EXCEPT !.losses = @ + losses])]]

\* The TournamentCard objects of the program: the two of ex4/main.py and a
\* third one that shares a base name or an attack power with them.
Objs == {"dragon", "wizard", "third"}
NotACard == "not_a_card"

\* the third card: same last word and same attack power as the dragon
IceDragon == TournamentCard(S_IceDragon, 3, 7, 5, 0)

\* third cards whose names exercise the ID scheme of register_card
ThirdCards ==
    { IceDragon,
      TournamentCard(S_Dragon001, 9, 5, 4, 2),
      TournamentCard(<<" ">>, 0, 7, 3, 1) }

\* total of wins and losses over all cards
RECURSIVE GamesOver(_, _)
GamesOver(h, os) ==
    IF os = {} THEN 0
    ELSE LET o == CHOOSE x \in os : TRUE IN
         h[o].wins + h[o].losses + GamesOver(h, os \ {o})

TotalGames(h) == GamesOver(h, DOMAIN h)

\* dict keys / lookup; _cards is kept as the list of its items in insertion order
Keys(c) == {c[i].id : i \in 1..Len(c)}

CardOf(c, id) == c[CHOOSE i \in 1..Len(c) : c[i].id = id].obj

\* self._cards[card_id] = card
DictSet(c, id, obj) ==
    IF id \in Keys(c)
    THEN [i \in 1..Len(c) |-> IF c[i].id = id THEN [id |-> id, obj |-> obj] ELSE c[i]]
    ELSE Append(c, [id |-> id, obj |-> obj])

\* sum(1 for card_id in self._cards.keys() if card_id.startswith(base_name + "_"))
CountWithPrefix_Eq(c, base_name) ==
    Cardinality({i \in 1..Len(c) : c[i].id = base_name \o <<"_">>})

CountWithPrefix(c, base_name) ==
    Cardinality({i \in 1..Len(c) : StartsWith(c[i].id, base_name \o <<"_">>)})

\* TournamentPlatform.register_card
register_card(c, h, card) ==
    IF card \notin DOMAIN h
    THEN [outcome |-> "TypeError", cards |-> c, value |-> <<>>]
    ELSE LET words == Split(Lower(h[card].name))
             base_name == IF words # <<>> THEN words[Len(words)] ELSE S_card
             count == CountWithPrefix(c, base_name)
             card_id == base_name \o <<"_">> \o Format03d(count + 1)
         IN [outcome |-> "ok", cards |-> DictSet(c, card_id, card), value |-> card_id]

\* TournamentPlatform.create_match; coin is the outcome of random.random() < 0.5
create_match_NoSelfCheck(c, h, m, card1_id, card2_id, coin) ==
    IF card1_id \notin Keys(c) \/ card2_id \notin Keys(c)
    THEN [outcome |-> "ValueError", heap |-> h, matches |-> m, value |-> <<>>]
    ELSE LET card1 == CardOf(c, card1_id)
             card2 == CardOf(c, card2_id)
             first == \/ h[card1].attack_power > h[card2].attack_power
                      \/ h[card1].attack_power = h[card2].attack_power /\ coin
             winner == IF first THEN card1 ELSE card2
             loser == IF first THEN card2 ELSE card1
             h2 == update_losses(update_wins(h, winner, 1).heap, loser, 1).heap
         IN [outcome |-> "ok", heap |-> h2, matches |-> m + 1,
             value |-> [winner |-> IF first THEN card1_id ELSE card2_id,
                        loser |-> IF first THEN card2_id ELSE card1_id,
                        winner_rating |-> h2[winner].rating,
                        loser_rating |-> h2[loser].rating]]

create_match_WinnerOnly(c, h, m, card1_id, card2_id, coin) ==
    IF card1_id \notin Keys(c) \/ card2_id \notin Keys(c) \/ card1_id = card2_id
    THEN [outcome |-> "ValueError", heap |-> h, matches |-> m, value |-> <<>>]
    ELSE LET card1 == CardOf(c, card1_id)
             card2 == CardOf(c, card2_id)
             first == \/ h[card1].attack_power > h[card2].attack_power
                      \/ h[card1].attack_power = h[card2].attack_power /\ coin
             winner == IF first THEN card1 ELSE card2
             loser == IF first THEN card2 ELSE card1
             h1 == update_wins(h, winner, 1).heap
         IN [outcome |-> "ok", heap |-> h1, matches |-> m + 1,
             value |-> [winner |-> IF first THEN card1_id ELSE card2_id,
                        loser |-> IF first THEN card2_id ELSE card1_id,
                        winner_rating |-> h1[winner].rating,
                        loser_rating |-> h1[loser].rating]]

create_match(c, h, m, card1_id, card2_id, coin) ==
    IF card1_id \notin Keys(c)
    THEN [outcome |-> "ValueError", heap |-> h, matches |-> m, value |-> <<>>]
    ELSE IF card2_id \notin Keys(c)
    THEN [outcome |-> "ValueError", heap |-> h, matches |-> m, value |-> <<>>]
    ELSE IF card1_id = card2_id
    THEN [outcome |-> "ValueError", heap |-> h, matches |-> m, value |-> <<>>]
    ELSE LET card1 == CardOf(c, card1_id)
             card2 == CardOf(c, card2_id)
             first == \/ h[card1].attack_power > h[card2].attack_power
                      \/ /\ ~(h[card2].attack_power > h[card1].attack_power)
                         /\ coin
             winner_id == IF first THEN card1_id ELSE card2_id
             loser_id == IF first THEN card2_id ELSE card1_id
             winner == IF first THEN card1 ELSE card2
             loser == IF first THEN card2 ELSE card1
             h1 == update_wins(h, winner, 1).heap
             h2 == update_losses(h1, loser, 1).heap
         IN [outcome |-> "ok", heap |-> h2, matches |-> m + 1,
             value |-> [winner |-> winner_id, loser |-> loser_id,
                        winner_rating |-> h2[winner].rating,
                        loser_rating |-> h2[loser].rating]]

\* sorted(card_items, key=rating, reverse=True): stable, highest rating first
RECURSIVE InsertAscending(_, _, _)
InsertAscending(h, x, sorted) ==
    IF sorted = <<>> THEN <<x>>
    ELSE IF h[Head(sorted).obj].rating <= h[x.obj].rating
         THEN <<Head(sorted)>> \o InsertAscending(h, x, Tail(sorted))
         ELSE <<x>> \o sorted

RECURSIVE InsertByRating(_, _, _)
InsertByRating(h, x, sorted) ==
    IF sorted = <<>> THEN <<x>>
    ELSE IF h[Head(sorted).obj].rating >= h[x.obj].rating
         THEN <<Head(sorted)>> \o InsertByRating(h, x, Tail(sorted))
         ELSE <<x>> \o sorted

RECURSIVE SortedCards(_, _)
SortedCards(h, items) ==
    IF items = <<>> THEN <<>>
    ELSE InsertByRating(h, items[Len(items)],
                        SortedCards(h, SubSeq(items, 1, Len(items) - 1)))

\* TournamentCard.get_rank_info()["record"]
RecordOf(card) == DigitsOf(card.wins) \o <<"-">> \o DigitsOf(card.losses)

\* TournamentPlatform.get_leaderboard
get_leaderboard(c, h) ==
    LET sorted_cards == SortedCards(h, c) IN
    [rank \in 1..Len(sorted_cards) |->
        [rank |-> rank,
         card_id |-> sorted_cards[rank].id,
         name |-> h[sorted_cards[rank].obj].name,
         rating |-> h[sorted_cards[rank].obj].rating,
         record |-> RecordOf(h[sorted_cards[rank].obj])]]

NoCall == [op |-> "none", args |-> <<>>, outcome |-> "none", value |-> <<>>]

TournIdle ==
    /\ heap = <<>>
    /\ cards = <<>>
    /\ matches_played = 0
    /\ registered_ok = 0
    /\ t_ret = NoCall

\* the cards of the program, constructed
HeapWith(third) ==
    [o \in Objs |->
        IF o = "dragon" THEN TournamentCard(S_FireDragon, 7, 7, 7, 3)
        ELSE IF o = "wizard" THEN TournamentCard(S_IceWizard, 6, 5, 6, 4)
        ELSE third]

\* TournamentPlatform.__init__, for each choice of the third card
InitRegister ==
    /\ \E third \in ThirdCards : heap = HeapWith(third)
    /\ cards = <<>>
    /\ matches_played = 0
    /\ registered_ok = 0
    /\ t_ret = NoCall

\* TournamentPlatform.__init__ and the construction of the cards
InitTourn ==
    /\ heap = HeapWith(IceDragon)
    /\ cards = <<>>
    /\ matches_played = 0
    /\ registered_ok = 0
    /\ t_ret = NoCall

RegisterUpTo(limit) ==
    /\ \E card \in Objs \cup {NotACard} :
         LET r == register_card(cards, heap, card) IN
         /\ r.outcome = "ok" => Len(cards) < limit
         /\ cards' = r.cards
         /\ registered_ok' = IF r.outcome = "ok" THEN registered_ok + 1 ELSE registered_ok
         /\ t_ret' = [op |-> "register_card", args |-> <<card>>,
                      outcome |-> r.outcome, value |-> r.value]
    /\ UNCHANGED <<heap, matches_played>>
    /\ UNCHANGED notTourn

RegisterCard == RegisterUpTo(MaxCards)

RegisterMany == RegisterUpTo(MaxRegistered)

CreateMatch ==
    /\ \E card1_id \in Keys(cards) \cup {S_ghost001},
          card2_id \in Keys(cards) \cup {S_ghost001},
          coin \in BOOLEAN :
         LET r == create_match(cards, heap, matches_played, card1_id, card2_id, coin) IN
         /\ r.outcome = "ok" => TotalGames(heap) + 2 <= MaxGames
         /\ heap' = r.heap
         /\ matches_played' = r.matches
         /\ t_ret' = [op |-> "create_match", args |-> <<card1_id, card2_id>>,
                      outcome |-> r.outcome, value |-> r.value]
    /\ UNCHANGED <<cards, registered_ok>>
    /\ UNCHANGED notTourn

UpdateArgs == {-1, 1}

UpdateWins ==
    /\ \E o \in Objs, n \in UpdateArgs :
         LET r == update_wins(heap, o, n) IN
         /\ TotalGames(heap) + n <= MaxGames
         /\ heap' = r.heap
         /\ t_ret' = [op |-> "update_wins", args |-> <<o, n>>,
                      outcome |-> r.outcome, value |-> <<>>]
    /\ UNCHANGED <<cards, matches_played, registered_ok>>
    /\ UNCHANGED notTourn

UpdateLosses ==
    /\ \E o \in Objs, n \in UpdateArgs :
         LET r == update_losses(heap, o, n) IN
         /\ TotalGames(heap) + n <= MaxGames
         /\ heap' = r.heap
         /\ t_ret' = [op |-> "update_losses", args |-> <<o, n>>,
                      outcome |-> r.outcome, value |-> <<>>]
    /\ UNCHANGED <<cards, matches_played, registered_ok>>
    /\ UNCHANGED notTourn

\* sum(card.rating for card in self._cards.values())
RECURSIVE TotalRating(_, _)
TotalRating(c, h) ==
    IF c = <<>> THEN 0
    ELSE h[c[Len(c)].obj].rating + TotalRating(SubSeq(c, 1, Len(c) - 1), h)

\* TournamentPlatform.generate_tournament_report
generate_tournament_report(c, h, m) ==
    IF c = <<>>
    THEN [total_cards |-> 0, matches_played |-> m, avg_rating |-> 0,
          platform_status |-> "active"]
    ELSE [total_cards |-> Len(c), matches_played |-> m,
          avg_rating |-> TotalRating(c, h) \div Len(c),
          platform_status |-> "active"]

MaxPlayers == 3

RegisterPlayers == RegisterUpTo(MaxPlayers)

TournamentReport ==
    /\ t_ret' = [op |-> "generate_tournament_report", args |-> <<>>, outcome |-> "ok",
                 value |-> generate_tournament_report(cards, heap, matches_played)]
    /\ UNCHANGED <<heap, cards, matches_played, registered_ok>>
    /\ UNCHANGED notTourn

GetLeaderboard ==
    /\ t_ret' = [op |-> "get_leaderboard", args |-> <<>>, outcome |-> "ok",
                 value |-> get_leaderboard(cards, heap)]
    /\ UNCHANGED <<heap, cards, matches_played, registered_ok>>
    /\ UNCHANGED notTourn

(***************************************************************************)
(* python_module_07/ex2: EliteCard; TournamentCard.defend of ex4           *)
(***************************************************************************)
S_ArcaneWarrior == <<"A","r","c","a","n","e"," ","W","a","r","r","i","o","r">>
S_Enemy1 == <<"E","n","e","m","y","1">>
S_Enemy2 == <<"E","n","e","m","y","2">>

StandardMana == 10
SpellCostCap == 4

Min(a, b) == IF a < b THEN a ELSE b
Max(a, b) == IF a > b THEN a ELSE b

\* EliteCard.__init__ with valid arguments (rarity is only displayed)
EliteCard(name, cost, attack, health, defense, spell_power) ==
    [name |-> name, cost |-> cost, attack_power |-> attack,
     max_health |-> health, health |-> health, defense |-> defense,
     max_mana |-> StandardMana, current_mana |-> StandardMana,
     spell_power |-> spell_power]

\* the card of ex2/main.py and two with other defense and spell power
EliteCards ==
    { EliteCard(S_ArcaneWarrior, 6, 5, 7, 3, 4),
      EliteCard(S_ArcaneWarrior, 2, 1, 4, 0, 3),
      EliteCard(S_ArcaneWarrior, 8, 9, 9, 5, 6) }

DamageInputs == {-1, 0, 2, 5, 9}

\* EliteCard.defend
EliteCard_defend(card, incoming_damage) ==
    IF incoming_damage < 0
    THEN [outcome |-> "ValueError", card |-> card, value |-> <<>>]
    ELSE LET damage_blocked == Min(card.defense, incoming_damage)
             damage_taken == Max(0, incoming_damage - card.defense)
             health == Max(0, card.health - damage_taken)
         IN [outcome |-> "ok",
             card |-> [card EXCEPT !.health = health],
             value |-> [defender |-> card.name, damage_taken |-> damage_taken,
                        damage_blocked |-> damage_blocked,
                        still_alive |-> health > 0]]

TournamentCard_defend_NoClamp(card, incoming_damage) ==
    IF incoming_damage < 0
    THEN [outcome |-> "ValueError", card |-> card, value |-> <<>>]
    ELSE LET damage_blocked == Min(card.defense, incoming_damage)
             damage_taken == Max(0, incoming_damage - card.defense)
             health == card.health - damage_taken
         IN [outcome |-> "ok",
             card |-> [card EXCEPT !.health = health],
             value |-> [defender |-> card.name, damage_taken |-> damage_taken,
                        damage_blocked |-> damage_blocked,
                        still_alive |-> health > 0]]

\* TournamentCard.defend
TournamentCard_defend(card, incoming_damage) ==
    IF incoming_damage < 0
    THEN [outcome |-> "ValueError", card |-> card, value |-> <<>>]
    ELSE LET damage_blocked == Min(card.defense, incoming_damage)
             damage_taken == Max(0, incoming_damage - card.defense)
             health == Max(0, card.health - damage_taken)
         IN [outcome |-> "ok",
             card |-> [card EXCEPT !.health = health],
             value |-> [defender |-> card.name, damage_taken |-> damage_taken,
                        damage_blocked |-> damage_blocked,
                        still_alive |-> health > 0]]

\* a spell target: a string, or an object with a name attribute
StrTarget(text) == [kind |-> "str", text |-> text]
ObjTarget(name) == [kind |-> "obj", name |-> name]

\* getattr(t, "name", str(t))
TargetName(t) == IF t.kind = "obj" THEN t.name ELSE t.text

SpellNameInputs == {<<>>, S_Fireball}

TargetInputs ==
    { <<>>, <<StrTarget(S_Enemy1), StrTarget(S_Enemy2)>>, <<ObjTarget(S_FireDragon)>> }

ChannelInputs == {-1, 0, 1, 3, 20}

cast_spell_FullCost(card, spell, targets) ==
    IF spell = <<>> \/ targets = <<>>
    THEN [outcome |-> "ValueError", card |-> card, value |-> <<>>]
    ELSE LET mana_cost == Min(SpellCostCap, card.spell_power)
             actual_cost == Min(mana_cost, card.current_mana)
         IN [outcome |-> "ok",
             card |-> [card EXCEPT !.current_mana = @ - mana_cost],
             value |-> [caster |-> card.name, spell |-> spell,
                        targets |-> [i \in 1..Len(targets) |-> TargetName(targets[i])],
                        mana_used |-> actual_cost]]

\* EliteCard.cast_spell
cast_spell(card, spell, targets) ==
    IF spell = <<>>
    THEN [outcome |-> "ValueError", card |-> card, value |-> <<>>]
    ELSE IF targets = <<>>
    THEN [outcome |-> "ValueError", card |-> card, value |-> <<>>]
    ELSE LET mana_cost == Min(SpellCostCap, card.spell_power)
             actual_cost == Min(mana_cost, card.current_mana)
         IN [outcome |-> "ok",
             card |-> [card EXCEPT !.current_mana = @ - actual_cost],
             value |-> [caster |-> card.name, spell |-> spell,
                        targets |-> [i \in 1..Len(targets) |-> TargetName(targets[i])],
                        mana_used |-> actual_cost]]

\* EliteCard.channel_mana
channel_mana(card, amount) ==
    IF amount <= 0
    THEN [outcome |-> "ValueError", card |-> card, value |-> <<>>]
    ELSE LET old_mana == card.current_mana
             new_mana == Min(card.max_mana, card.current_mana + amount)
             actual_gain == new_mana - old_mana
         IN [outcome |-> "ok",
             card |-> [card EXCEPT !.current_mana = new_mana],
             value |-> [channeled |-> actual_gain, total_mana |-> new_mana]]

EliteIdle ==
    /\ elite = <<>>
    /\ c_ret = NoCall

\* one EliteCard, constructed
InitElite ==
    /\ elite \in EliteCards
    /\ c_ret = NoCall

EliteDefend ==
    /\ \E d \in DamageInputs :
         LET r == EliteCard_defend(elite, d) IN
         /\ elite' = r.card
         /\ c_ret' = [op |-> "elite_defend", args |-> <<d>>,
                      outcome |-> r.outcome, value |-> r.value]
    /\ UNCHANGED tournVars
    /\ UNCHANGED notCombat

TournamentDefend ==
    /\ \E o \in DOMAIN heap, d \in DamageInputs :
         LET r == TournamentCard_defend(heap[o], d) IN
         /\ heap' = [heap EXCEPT ![o] = r.card]
         /\ c_ret' = [op |-> "tournament_defend", args |-> <<o, d>>,
                      outcome |-> r.outcome, value |-> r.value]
    /\ UNCHANGED <<elite, cards, matches_played, registered_ok, t_ret>>
    /\ UNCHANGED notCombat

CastSpell ==
    /\ \E spell \in SpellNameInputs, targets \in TargetInputs :
         LET r == cast_spell(elite, spell, targets) IN
         /\ elite' = r.card
         /\ c_ret' = [op |-> "cast_spell", args |-> <<spell, targets>>,
                      outcome |-> r.outcome, value |-> r.value]
    /\ UNCHANGED notElite

ChannelMana ==
    /\ \E amount \in ChannelInputs :
         LET r == channel_mana(elite, amount) IN
         /\ elite' = r.card
         /\ c_ret' = [op |-> "channel_mana", args |-> <<amount>>,
                      outcome |-> r.outcome, value |-> r.value]
    /\ UNCHANGED notElite

(***************************************************************************)
(* python_module_07/ex1: Deck                                              *)
(***************************************************************************)
MaxDeck == 3
MaxExtraDraws == 2

S_ManaCrystal == <<"M","a","n","a"," ","C","r","y","s","t","a","l">>
S_LightningBolt == <<"L","i","g","h","t","n","i","n","g"," ","B","o","l","t">>

\* the Card objects of ex1/main.py
DeckCardObjs == {"fire_dragon", "mana_crystal", "lightning_bolt"}

DeckCardName(card) ==
    IF card = "fire_dragon" THEN S_FireDragon
    ELSE IF card = "mana_crystal" THEN S_ManaCrystal
    ELSE S_LightningBolt

None == "None"

\* Deck.add_card
deck_add_card(cs, card) ==
    IF card \notin DeckCardObjs
    THEN [outcome |-> "TypeError", cards |-> cs]
    ELSE [outcome |-> "ok", cards |-> Append(cs, card)]

\* list.pop(i), i counted from 1
PopAt(cs, i) == SubSeq(cs, 1, i - 1) \o SubSeq(cs, i + 1, Len(cs))

\* Deck.remove_card: the first card with that name
deck_remove_card(cs, card_name) ==
    IF \E i \in 1..Len(cs) : DeckCardName(cs[i]) = card_name
    THEN LET first == CHOOSE i \in 1..Len(cs) :
                        /\ DeckCardName(cs[i]) = card_name
                        /\ \A j \in 1..(i - 1) : DeckCardName(cs[j]) # card_name
         IN [value |-> TRUE, cards |-> PopAt(cs, first)]
    ELSE [value |-> FALSE, cards |-> cs]

\* random.shuffle: every reordering of the list
Shuffles(cs) ==
    { [i \in 1..Len(cs) |-> cs[p[i]]] :
        p \in {q \in [1..Len(cs) -> 1..Len(cs)] :
                 \A i, j \in 1..Len(cs) : q[i] = q[j] => i = j} }

draw_card_Front(cs) ==
    IF cs = <<>> THEN [value |-> None, cards |-> cs]
    ELSE [value |-> Head(cs), cards |-> Tail(cs)]

\* Deck.draw_card
draw_card(cs) ==
    IF cs = <<>> THEN [value |-> None, cards |-> cs]
    ELSE [value |-> cs[Len(cs)], cards |-> SubSeq(cs, 1, Len(cs) - 1)]

\* Deck.__init__; main has not reached its loop
DeckIdle ==
    /\ deck_cards = <<>>
    /\ added = <<>>
    /\ disturbed = FALSE
    /\ phase = "build"
    /\ draws = <<>>
    /\ n_start = 0
    /\ loop_draws = 0

InitDeck == DeckIdle

DeckAddCard ==
    /\ phase = "build"
    /\ \E card \in DeckCardObjs \cup {NotACard} :
         LET r == deck_add_card(deck_cards, card) IN
         /\ r.outcome = "ok" => Len(added) < MaxDeck
         /\ deck_cards' = r.cards
         /\ added' = IF r.outcome = "ok" THEN Append(added, card) ELSE added
    /\ UNCHANGED <<disturbed, phase, draws, n_start, loop_draws>>
    /\ UNCHANGED notDeck

DeckRemoveCard ==
    /\ phase = "build"
    /\ \E card \in DeckCardObjs :
         LET r == deck_remove_card(deck_cards, DeckCardName(card)) IN
         /\ deck_cards' = r.cards
         /\ disturbed' = (disturbed \/ r.value)
    /\ UNCHANGED <<added, phase, draws, n_start, loop_draws>>
    /\ UNCHANGED notDeck

DeckShuffle ==
    /\ phase = "build"
    /\ deck_cards' \in Shuffles(deck_cards)
    /\ disturbed' = TRUE
    /\ UNCHANGED <<added, phase, draws, n_start, loop_draws>>
    /\ UNCHANGED notDeck

\* main reaches "while len(deck) > 0"
StartLoop ==
    /\ phase = "build"
    /\ phase' = "loop"
    /\ n_start' = Len(deck_cards)
    /\ UNCHANGED <<deck_cards, added, disturbed, draws, loop_draws>>
    /\ UNCHANGED notDeck

\* one test of the loop condition, and one iteration when it holds
LoopStep ==
    /\ phase = "loop"
    /\ IF Len(deck_cards) > 0
       THEN LET r == draw_card(deck_cards) IN
            /\ deck_cards' = r.cards
            /\ draws' = Append(draws, r.value)
            /\ loop_draws' = loop_draws + 1
            /\ UNCHANGED phase
       ELSE /\ phase' = "done"
            /\ UNCHANGED <<deck_cards, draws, loop_draws>>
    /\ UNCHANGED <<added, disturbed, n_start>>
    /\ UNCHANGED notDeck

\* a further draw_card call after the loop
ExtraDraw ==
    /\ phase = "done"
    /\ Len(draws) - loop_draws < MaxExtraDraws
    /\ LET r == draw_card(deck_cards) IN
       /\ deck_cards' = r.cards
       /\ draws' = Append(draws, r.value)
    /\ UNCHANGED <<added, disturbed, phase, n_start, loop_draws>>
    /\ UNCHANGED notDeck

(***************************************************************************)
(* module 10 ex4: retry_spell                                              *)
(***************************************************************************)
MaxAttempts == 3
MaxWrapperCalls == 3

S_SpellSucceeded ==
    <<"S","p","e","l","l"," ","s","u","c","c","e","e","d","e","d","!">>
S_FailedAfter ==
    <<"S","p","e","l","l"," ","c","a","s","t","i","n","g"," ",
      "f","a","i","l","e","d"," ","a","f","t","e","r"," ">>
S_Attempts == <<" ","a","t","t","e","m","p","t","s">>
S_Result == <<"r","e","s","u","l","t"," ">>

\* str(n)
IntStr(n) == IF n < 0 THEN <<"-">> \o DigitsOf(0 - n) ELSE DigitsOf(n)

\* f"Spell casting failed after {max_attempts} attempts"
failed_message(max_attempts) == S_FailedAfter \o IntStr(max_attempts) \o S_Attempts

\* the values of attempt: range(1, max_attempts) stops one short
attempt_range_Short(max_attempts) == 1..(max_attempts - 1)

\* range(1, max_attempts + 1)
attempt_range(max_attempts) == 1..max_attempts

\* unstable_spell: counts its calls in state['count'] and raises ValueError
\* until the third
unstable_spell(count) ==
    IF count + 1 < 3
    THEN [outcome |-> "Exception", value |-> <<>>, count |-> count + 1]
    ELSE [outcome |-> "return", value |-> S_SpellSucceeded, count |-> count + 1]

\* any other wrapped function: each call returns a value of its own, raises
\* an Exception, or raises a BaseException that is not an Exception
\* (KeyboardInterrupt, SystemExit)
FuncOutcomes == {"return", "Exception", "BaseException"}
Funcs == {"unstable_spell", "any_spell"}

any_spell(count, outcome) ==
    [outcome |-> outcome,
     value |-> IF outcome = "return" THEN S_Result \o IntStr(count + 1) ELSE <<>>,
     count |-> count + 1]

\* the calls func can answer with
CallsOf(func, count) ==
    IF func = "unstable_spell" THEN {unstable_spell(count)}
    ELSE {any_spell(count, o) : o \in FuncOutcomes}

RetryIdle ==
    /\ r_func = "unstable_spell" /\ r_max = 0 /\ r_attempt = 0 /\ r_count = 0
    /\ r_log = <<>> /\ r_pc = "idle" /\ r_result = <<>> /\ r_wrapper_calls = 0

\* @retry_spell(max_attempts) def func; wrapper() entered
InitRetry ==
    /\ r_func \in Funcs
    /\ r_max \in -1..MaxAttempts
    /\ r_attempt = 0 /\ r_count = 0
    /\ r_log = <<>> /\ r_pc = "loop" /\ r_result = <<>> /\ r_wrapper_calls = 1

\* one iteration of the for loop: try: return func() except Exception: print
RetryAttempt ==
    /\ r_pc = "loop"
    /\ r_attempt + 1 \in attempt_range(r_max)
    /\ \E call \in CallsOf(r_func, r_count) :
        /\ r_attempt' = r_attempt + 1
        /\ r_count' = call.count
        /\ r_log' = Append(r_log, [outcome |-> call.outcome, value |-> call.value])
        /\ r_pc' = CASE call.outcome = "return" -> "returned"
                     [] call.outcome = "Exception" -> "loop"
                     [] OTHER -> "propagated"
        /\ r_result' = IF call.outcome = "return" THEN call.value ELSE r_result
    /\ UNCHANGED <<r_func, r_max, r_wrapper_calls>>
    /\ UNCHANGED notRetry

\* the range is exhausted: return the failure message
RetryExhausted ==
    /\ r_pc = "loop"
    /\ r_attempt + 1 \notin attempt_range(r_max)
    /\ r_pc' = "returned"
    /\ r_result' = failed_message(r_max)
    /\ UNCHANGED <<r_func, r_max, r_attempt, r_count, r_log, r_wrapper_calls>>
    /\ UNCHANGED notRetry

\* the wrapper is called again; func keeps its state
WrapperCall ==
    /\ r_pc \in {"returned", "propagated"}
    /\ r_wrapper_calls < MaxWrapperCalls
    /\ r_wrapper_calls' = r_wrapper_calls + 1
    /\ r_attempt' = 0 /\ r_log' = <<>> /\ r_pc' = "loop" /\ r_result' = <<>>
    /\ UNCHANGED <<r_func, r_max, r_count>>
    /\ UNCHANGED notRetry

(***************************************************************************)
(* module 05 ex2: ProcessingPipeline                                       *)
(*                                                                         *)
(* A Python value is a record tagged with its type; an f-string is the     *)
(* template with the values it formats.                                    *)
(***************************************************************************)
MaxStages == 3
MaxExecutes == 2

PyNone == [t |-> "NoneType"]
PyStr(s) == [t |-> "str", s |-> s, args |-> <<>>]
PyFormat(template, values) == [t |-> "str", s |-> template, args |-> values]
PyInt(n) == [t |-> "int", n |-> n]
PyBool(b) == [t |-> "bool", b |-> b]
PyList(items) == [t |-> "list", items |-> items]
PyDict(d) == [t |-> "dict", d |-> d]

\* d.get(key, default)
DictGet(dict, key, default) ==
    IF key \in DOMAIN dict.d THEN dict.d[key] ELSE default

Return(v) == [outcome |-> "return", value |-> v, error |-> PyNone]
\* raise of an Exception subclass; error is str(e)
Raise(message) == [outcome |-> "Exception", value |-> PyNone, error |-> PyStr(message)]
\* raise of a BaseException that is not an Exception
RaiseBase(message) ==
    [outcome |-> "BaseException", value |-> PyNone, error |-> PyStr(message)]

InputStage_process(data) ==
    IF data.t = "NoneType" THEN Raise("Input data cannot be None")
    ELSE LET validated ==
                 CASE data.t = "str" ->
                        PyDict([raw_input |-> data, type |-> PyStr("string")])
                   [] data.t = "dict" ->
                        PyDict([raw_input |-> data, type |-> PyStr("dict")])
                   [] data.t = "list" ->
                        PyDict([raw_input |-> data, type |-> PyStr("list")])
                   [] OTHER ->
                        PyDict([raw_input |-> PyFormat("{}", <<data>>),
                                type |-> PyStr("unknown")])
         IN Return(PyDict([stage |-> PyStr("input"),
                           validated |-> validated,
                           status |-> PyStr("validated")]))

TransformStage_process(data) ==
    LET d1 == IF data.t # "dict" THEN PyDict([data |-> data]) ELSE data
        validated == DictGet(d1, "validated", d1)
        raw == IF validated.t = "dict"
               THEN DictGet(validated, "raw_input", validated)
               ELSE validated
        transformed == PyDict([original |-> raw,
                               processed |-> PyBool(TRUE),
                               transformation |-> PyStr("enriched")])
    IN Return(PyDict([stage |-> PyStr("transform"),
                      transformed |-> transformed,
                      metadata |-> PyStr("enriched with validation"),
                      status |-> PyStr("transformed")]))

OutputStage_process(data) ==
    IF data.t # "dict" THEN Return(PyFormat("Output: {}", <<data>>))
    ELSE Return(PyFormat("Processed data: {} (Status: {})",
                         <<DictGet(data, "transformed", data),
                           DictGet(data, "status", PyStr("processed"))>>))

\* the stages of the module, and two stages of a caller that implement the
\* ProcessingStage protocol by raising: one an Exception, one a SystemExit
Stages == {"InputStage", "TransformStage", "OutputStage",
           "RaisingStage", "ExitingStage"}

\* stage.process(data)
stage_process(stage, data) ==
    CASE stage = "InputStage" -> InputStage_process(data)
      [] stage = "TransformStage" -> TransformStage_process(data)
      [] stage = "OutputStage" -> OutputStage_process(data)
      [] stage = "RaisingStage" -> Raise("stage failed")
      [] OTHER -> RaiseBase("exit")

\* for stage in self._stages: result = stage.process(result)
\* ran lists, for every stage entered, its input and what process did
RECURSIVE run_stages(_, _, _)
run_stages(stages, result, ran) ==
    IF stages = <<>>
    THEN [outcome |-> "return", result |-> result, error |-> PyNone, ran |-> ran]
    ELSE LET r == stage_process(Head(stages), result)
             entry == [stage |-> Head(stages), input |-> result,
                       outcome |-> r.outcome, output |-> r.value,
                       error |-> r.error]
         IN IF r.outcome = "return"
            THEN run_stages(Tail(stages), r.value, Append(ran, entry))
            ELSE [outcome |-> r.outcome, result |-> result, error |-> r.error,
                  ran |-> Append(ran, entry)]

\* execute with the success counter moved to the finally clause
execute_CountInFinally(stages, batches_processed, error_count, data) ==
    IF stages = <<>>
    THEN [outcome |-> "ValueError", value |-> PyNone, ran |-> <<>>,
          batches_processed |-> batches_processed, error_count |-> error_count]
    ELSE LET r == run_stages(stages, data, <<>>)
         IN CASE r.outcome = "return" ->
                   [outcome |-> "return", value |-> r.result, ran |-> r.ran,
                    batches_processed |-> batches_processed + 1,
                    error_count |-> error_count]
              [] r.outcome = "Exception" ->
                   [outcome |-> "return", ran |-> r.ran,
                    value |-> PyDict([error |-> r.error, partial_data |-> r.result]),
                    batches_processed |-> batches_processed + 1,
                    error_count |-> error_count + 1]
              [] OTHER ->
                   [outcome |-> "BaseException", value |-> PyNone, ran |-> r.ran,
                    batches_processed |-> batches_processed + 1,
                    error_count |-> error_count]

\* ProcessingPipeline.execute
execute(stages, batches_processed, error_count, data) ==
    IF stages = <<>>
    THEN [outcome |-> "ValueError", value |-> PyNone, ran |-> <<>>,
          batches_processed |-> batches_processed, error_count |-> error_count]
    ELSE LET r == run_stages(stages, data, <<>>)
         IN CASE r.outcome = "return" ->
                   [outcome |-> "return", value |-> r.result, ran |-> r.ran,
                    batches_processed |-> batches_processed + 1,
                    error_count |-> error_count]
              [] r.outcome = "Exception" ->
                   [outcome |-> "return", ran |-> r.ran,
                    value |-> PyDict([error |-> r.error, partial_data |-> r.result]),
                    batches_processed |-> batches_processed,
                    error_count |-> error_count + 1]
              [] OTHER ->
                   \* not caught by except Exception: propagates
                   [outcome |-> "BaseException", value |-> PyNone, ran |-> r.ran,
                    batches_processed |-> batches_processed,
                    error_count |-> error_count]

\* ProcessingPipeline.get_performance_stats, without the times; efficiency
\* is the ratio before rounding
get_performance_stats(batches_processed, error_count) ==
    LET total_attempts == batches_processed + error_count
    IN [batches_processed |-> batches_processed,
        error_count |-> error_count,
        efficiency |-> IF total_attempts > 0
                       THEN <<batches_processed, Max(total_attempts, 1)>>
                       ELSE <<1, 1>>]

\* data handed to execute
DataInputs ==
    {PyNone, PyStr("temp:22"), PyInt(42), PyList(<<PyInt(1)>>),
     PyDict([sensor |-> PyStr("temp")]),
     PyDict([validated |-> PyStr("seen"), status |-> PyStr("ready")])}

NoPipeCall == [op |-> "none", data |-> PyNone, outcome |-> "none",
               value |-> PyNone, ran |-> <<>>]

PipeIdle ==
    /\ p_stages = <<>> /\ p_batches_processed = 0 /\ p_error_count = 0
    /\ p_executes = 0 /\ p_propagated = 0 /\ p_ret = NoPipeCall

\* ProcessingPipeline.__init__
InitPipe == PipeIdle

\* ProcessingPipeline.add_stage
AddStage ==
    /\ Len(p_stages) < MaxStages
    /\ \E stage \in Stages : p_stages' = Append(p_stages, stage)
    /\ UNCHANGED <<p_batches_processed, p_error_count, p_executes, p_propagated, p_ret>>
    /\ UNCHANGED notPipe

\* one execute call; p_executes counts the calls on a pipeline with stages,
\* p_propagated those of them that ended with an exception
Execute ==
    /\ p_executes < MaxExecutes
    /\ \E data \in DataInputs :
        LET r == execute(p_stages, p_batches_processed, p_error_count, data)
        IN /\ p_batches_processed' = r.batches_processed
           /\ p_error_count' = r.error_count
           /\ p_executes' = IF p_stages # <<>> THEN p_executes + 1 ELSE p_executes
           /\ p_propagated' = IF r.outcome = "BaseException"
                              THEN p_propagated + 1 ELSE p_propagated
           /\ p_ret' = [op |-> "execute", data |-> data, outcome |-> r.outcome,
                        value |-> r.value, ran |-> r.ran]
    /\ UNCHANGED p_stages
    /\ UNCHANGED notPipe

GetPerformanceStats ==
    /\ p_ret' = [op |-> "get_performance_stats", data |-> PyNone, outcome |-> "return",
                 value |-> get_performance_stats(p_batches_processed, p_error_count),
                 ran |-> <<>>]
    /\ UNCHANGED <<p_stages, p_batches_processed, p_error_count, p_executes, p_propagated>>
    /\ UNCHANGED notPipe

(***************************************************************************)
(* module 05 ex1: SensorStream, TransactionStream, EventStream             *)
(***************************************************************************)
MaxBatch == 2
MaxBatches == 2

\* a float of integral value
PyFloat(n) == [t |-> "float", n |-> n]
\* a / b
PyQuotient(a, b) == [t |-> "float", num |-> a, den |-> b]
\* a str as its characters
PyText(chars) == [t |-> "str", chars |-> chars]

IsNumber(v) == v.t \in {"int", "float"}

\* not v
Falsy(v) ==
    \/ v.t = "NoneType"
    \/ v.t = "list" /\ v.items = <<>>
    \/ v.t = "int" /\ v.n = 0

S_error == <<"e","r","r","o","r">>
S_login == <<"l","o","g","i","n">>
S_ERROR == <<"E","R","R","O","R">>

\* f"Error processing ... batch: {e}"
ErrorMessages ==
    {"Error processing sensor batch: {}",
     "Error processing transaction batch: {}",
     "Error processing event batch: {}"}

IsErrorMessage(m) == m.s \in ErrorMessages

\* the loop over the readings: self._temperature_sum += temp raises
\* TypeError on a temp that is not a number, after the readings before it
\* were added
RECURSIVE sensor_readings(_, _, _)
sensor_readings(items, temperature_sum, temps) ==
    IF items = <<>>
    THEN [outcome |-> "ok", temperature_sum |-> temperature_sum, temps |-> temps]
    ELSE LET reading == Head(items)
         IN IF reading.t = "dict" /\ "temp" \in DOMAIN reading.d
            THEN IF IsNumber(reading.d.temp)
                 THEN sensor_readings(Tail(items),
                                      temperature_sum + reading.d.temp.n,
                                      Append(temps, reading.d.temp.n))
                 ELSE [outcome |-> "TypeError",
                       temperature_sum |-> temperature_sum, temps |-> temps]
            ELSE sensor_readings(Tail(items), temperature_sum, temps)

RECURSIVE SumOf(_)
SumOf(s) == IF s = <<>> THEN 0 ELSE Head(s) + SumOf(Tail(s))

\* SensorStream.process_batch
SensorStream_process_batch(self, data_batch) ==
    IF Falsy(data_batch)
    THEN [self |-> self, message |-> PyStr("No sensor data to process")]
    ELSE IF data_batch.t # "list"
    THEN \* len(data_batch) raises TypeError
         [self |-> self,
          message |-> PyFormat("Error processing sensor batch: {}", <<PyStr("TypeError")>>)]
    ELSE LET readings_count == Len(data_batch.items)
             counted == [self EXCEPT !.batches_processed = @ + 1,
                                     !.total_items = @ + readings_count,
                                     !.total_readings = @ + readings_count]
             r == sensor_readings(data_batch.items, self.temperature_sum, <<>>)
             after == [counted EXCEPT !.temperature_sum = r.temperature_sum]
         IN IF r.outcome = "TypeError"
            THEN [self |-> after,
                  message |-> PyFormat("Error processing sensor batch: {}",
                                       <<PyStr("TypeError")>>)]
            ELSE [self |-> after,
                  message |-> PyFormat(
                      "Sensor analysis: {} readings processed, avg temp: {:.1f}C",
                      <<PyInt(readings_count),
                        IF r.temps # <<>>
                        THEN PyQuotient(SumOf(r.temps), Len(r.temps))
                        ELSE PyInt(0)>>)]

\* a + b, a - b on Python numbers: float when either is
PyAdd(a, b) == [t |-> IF "float" \in {a.t, b.t} THEN "float" ELSE "int", n |-> a.n + b.n]
PySub(a, b) == [t |-> IF "float" \in {a.t, b.t} THEN "float" ELSE "int", n |-> a.n - b.n]

\* the loop over the transactions: batch_flow += / -= raises TypeError on an
\* amount that is not a number
RECURSIVE transaction_flow(_, _)
transaction_flow(items, batch_flow) ==
    IF items = <<>> THEN [outcome |-> "ok", batch_flow |-> batch_flow]
    ELSE LET transaction == Head(items)
             has_buy == transaction.t = "dict" /\ "buy" \in DOMAIN transaction.d
             has_sell == transaction.t = "dict" /\ "sell" \in DOMAIN transaction.d
         IN IF has_buy /\ ~IsNumber(transaction.d.buy)
            THEN [outcome |-> "TypeError", batch_flow |-> batch_flow]
            ELSE LET bought == IF has_buy THEN PyAdd(batch_flow, transaction.d.buy)
                               ELSE batch_flow
                 IN IF has_sell /\ ~IsNumber(transaction.d.sell)
                    THEN [outcome |-> "TypeError", batch_flow |-> bought]
                    ELSE transaction_flow(Tail(items),
                                          IF has_sell
                                          THEN PySub(bought, transaction.d.sell)
                                          ELSE bought)

\* TransactionStream.process_batch
TransactionStream_process_batch(self, data_batch) ==
    IF Falsy(data_batch)
    THEN [self |-> self, message |-> PyStr("No transaction data to process")]
    ELSE IF data_batch.t # "list"
    THEN [self |-> self,
          message |-> PyFormat("Error processing transaction batch: {}",
                               <<PyStr("TypeError")>>)]
    ELSE LET operations_count == Len(data_batch.items)
             counted == [self EXCEPT !.batches_processed = @ + 1,
                                     !.total_items = @ + operations_count,
                                     !.total_operations = @ + operations_count]
             r == transaction_flow(data_batch.items, PyInt(0))
         IN IF r.outcome = "TypeError"
            THEN [self |-> counted,
                  message |-> PyFormat("Error processing transaction batch: {}",
                                       <<PyStr("TypeError")>>)]
            ELSE LET after == [counted EXCEPT !.net_flow = @ + r.batch_flow.n]
                 IN IF r.batch_flow.t = "float"
                    THEN \* format code +d on a float raises ValueError
                         [self |-> after,
                          message |-> PyFormat("Error processing transaction batch: {}",
                                               <<PyStr("ValueError")>>)]
                    ELSE [self |-> after,
                          message |-> PyFormat(
                              "Transaction analysis: {} operations, net flow: {:+d} units",
                              <<PyInt(operations_count), r.batch_flow>>)]

\* isinstance(event, str) and "error" in event.lower(), counted over the batch
RECURSIVE event_errors(_)
event_errors(items) ==
    IF items = <<>> THEN 0
    ELSE (IF Head(items).t = "str" /\ Contains(Lower(Head(items).chars), S_error)
          THEN 1 ELSE 0) + event_errors(Tail(items))

\* EventStream.process_batch
EventStream_process_batch(self, data_batch) ==
    IF Falsy(data_batch)
    THEN [self |-> self, message |-> PyStr("No event data to process")]
    ELSE IF data_batch.t # "list"
    THEN [self |-> self,
          message |-> PyFormat("Error processing event batch: {}", <<PyStr("TypeError")>>)]
    ELSE LET events_count == Len(data_batch.items)
             batch_errors == event_errors(data_batch.items)
             after == [self EXCEPT !.batches_processed = @ + 1,
                                   !.total_items = @ + events_count,
                                   !.total_events = @ + events_count,
                                   !.error_count = @ + batch_errors]
         IN [self |-> after,
             message |->
                 IF batch_errors > 0
                 THEN PyFormat("Event analysis: {} events, {}",
                               <<PyInt(events_count),
                                 PyFormat(IF batch_errors = 1 THEN "{} error detected"
                                          ELSE "{} errors detected",
                                          <<PyInt(batch_errors)>>)>>)
                 ELSE PyFormat("Event analysis: {} events processed",
                               <<PyInt(events_count)>>)]

\* the items of a batch, and what is passed in place of a list
SensorItems ==
    {PyDict([temp |-> PyInt(22)]), PyDict([temp |-> PyStr("hot")]),
     PyDict([humidity |-> PyInt(65)])}
TransactionItems ==
    {PyDict([buy |-> PyInt(100)]), PyDict([sell |-> PyInt(150)]),
     PyDict([buy |-> PyFloat(2)]), PyDict([buy |-> PyStr("ten")])}
EventItems == {PyText(S_login), PyText(S_ERROR)}
NotLists == {PyNone, PyInt(5)}

BatchesOf(items) == {PyList(s) : s \in SeqsUpTo(items, MaxBatch)} \cup NotLists

NoStreamCall == [op |-> "none", stream |-> "none", data_batch |-> PyNone,
                 message |-> PyStr("")]

\* DataStream.__init__ and the three subclasses' __init__
NewSensorStream ==
    [batches_processed |-> 0, total_items |-> 0, total_readings |-> 0,
     temperature_sum |-> 0]
NewTransactionStream ==
    [batches_processed |-> 0, total_items |-> 0, total_operations |-> 0,
     net_flow |-> 0]
NewEventStream ==
    [batches_processed |-> 0, total_items |-> 0, total_events |-> 0,
     error_count |-> 0]

StreamIdle ==
    /\ sensor_stream = NewSensorStream
    /\ transaction_stream = NewTransactionStream
    /\ event_stream = NewEventStream
    /\ stream_calls = 0
    /\ stream_ret = NoStreamCall

InitStream == StreamIdle

SensorBatch ==
    /\ stream_calls < MaxBatches
    /\ \E data_batch \in BatchesOf(SensorItems) :
        LET r == SensorStream_process_batch(sensor_stream, data_batch)
        IN /\ sensor_stream' = r.self
           /\ stream_ret' = [op |-> "process_batch", stream |-> "sensor",
                             data_batch |-> data_batch, message |-> r.message]
    /\ stream_calls' = stream_calls + 1
    /\ UNCHANGED <<transaction_stream, event_stream>>
    /\ UNCHANGED notStream

TransactionBatch ==
    /\ stream_calls < MaxBatches
    /\ \E data_batch \in BatchesOf(TransactionItems) :
        LET r == TransactionStream_process_batch(transaction_stream, data_batch)
        IN /\ transaction_stream' = r.self
           /\ stream_ret' = [op |-> "process_batch", stream |-> "transaction",
                             data_batch |-> data_batch, message |-> r.message]
    /\ stream_calls' = stream_calls + 1
    /\ UNCHANGED <<sensor_stream, event_stream>>
    /\ UNCHANGED notStream

EventBatch ==
    /\ stream_calls < MaxBatches
    /\ \E data_batch \in BatchesOf(EventItems) :
        LET r == EventStream_process_batch(event_stream, data_batch)
        IN /\ event_stream' = r.self
           /\ stream_ret' = [op |-> "process_batch", stream |-> "event",
                             data_batch |-> data_batch, message |-> r.message]
    /\ stream_calls' = stream_calls + 1
    /\ UNCHANGED <<sensor_stream, transaction_stream>>
    /\ UNCHANGED notStream

(***************************************************************************)
(* module 00 ex5: ft_count_harvest_recursive, ft_count_harvest_iterative   *)
(***************************************************************************)
MaxRejected == 2

\* CPython's default sys.getrecursionlimit(), and the frames below the first
\* call of recursive: the module and ft_count_harvest_recursive
RecursionLimit == 1000
BaseFrames == 2

S_Day == <<"D","a","y"," ">>
S_HarvestTime == <<"H","a","r","v","e","s","t"," ","t","i","m","e","!">>
S_PositiveValue ==
    <<"P","l","e","a","s","e"," ","e","n","t","e","r"," ","a"," ",
      "p","o","s","i","t","i","v","e"," ","v","a","l","u","e">>
S_ValueError ==
    <<"V","a","l","u","e"," ","e","r","r","o","r",","," ",
      "p","l","e","a","s","e"," ","e","n","t","e","r"," ","a"," ",
      "p","o","s","i","t","i","v","e"," ","n","u","m","b","e","r",".">>

Programs == {"recursive", "iterative"}

\* the message for a negative number: only the recursive one ends with "."
negative_message(program) ==
    IF program = "recursive" THEN S_PositiveValue \o <<".">> ELSE S_PositiveValue

IsDigit(c) == \E i \in 1..Len(DigitChars) : DigitChars[i] = c
DigitValue(c) == (CHOOSE i \in 1..Len(DigitChars) : DigitChars[i] = c) - 1

RECURSIVE DigitsValue(_)
DigitsValue(s) ==
    IF s = <<>> THEN 0
    ELSE DigitsValue(SubSeq(s, 1, Len(s) - 1)) * 10 + DigitValue(s[Len(s)])

\* int(line): surrounding blanks and one sign are accepted
ParseInt(line) ==
    LET s == Strip(line)
        signed == s # <<>> /\ Head(s) \in {"-", "+"}
        digits == IF signed THEN Tail(s) ELSE s
    IN IF digits # <<>> /\ \A i \in 1..Len(digits) : IsDigit(digits[i])
       THEN [outcome |-> "ok",
             value |-> IF signed /\ Head(s) = "-" THEN 0 - DigitsValue(digits)
                       ELSE DigitsValue(digits)]
       ELSE [outcome |-> "ValueError", value |-> 0]

\* f"Day {days}"
DayLine(days) == S_Day \o IntStr(days)

\* what the user types at the prompt
InputLines ==
    {<<"0">>, <<"1">>, <<"3">>, <<" ","2"," ">>, <<"-","1">>, <<"a","b","c">>,
     <<>>, <<"1","0","0","0">>}

HarvestIdle ==
    /\ h_program = "iterative" /\ h_pc = "idle" /\ h_line = <<>> /\ h_days = 0
    /\ h_stack = <<>> /\ h_i = 0 /\ h_printed = <<>> /\ h_rejected = 0
    /\ h_accepted_at = 0

\* one of the two programs is started and waits at input()
InitHarvest ==
    /\ h_program \in Programs
    /\ h_pc = "input" /\ h_line = <<>> /\ h_days = 0
    /\ h_stack = <<>> /\ h_i = 0 /\ h_printed = <<>> /\ h_rejected = 0
    /\ h_accepted_at = 0

\* one turn of the while True loop
ReadInput ==
    /\ h_pc = "input"
    /\ \E line \in InputLines :
        LET r == ParseInt(line)
            rejected == r.outcome = "ValueError" \/ r.value < 0
        IN /\ rejected => h_rejected < MaxRejected
           /\ h_line' = line
           /\ IF r.outcome = "ValueError"
              THEN /\ h_printed' = Append(h_printed, S_ValueError)
                   /\ UNCHANGED <<h_pc, h_days, h_accepted_at>>
              ELSE IF r.value < 0
              THEN /\ h_printed' = Append(h_printed, negative_message(h_program))
                   /\ h_days' = r.value
                   /\ UNCHANGED <<h_pc, h_accepted_at>>
              ELSE /\ h_days' = r.value
                   /\ h_pc' = "count"
                   /\ h_accepted_at' = Len(h_printed)
                   /\ UNCHANGED h_printed
           /\ h_rejected' = IF rejected THEN h_rejected + 1 ELSE h_rejected
    /\ UNCHANGED <<h_program, h_stack, h_i>>
    /\ UNCHANGED notHarvest

\* for i in range(days): print(f"Day {i + 1}")
IterativeStep ==
    /\ h_program = "iterative" /\ h_pc = "count"
    /\ IF h_i < h_days
       THEN /\ h_printed' = Append(h_printed, DayLine(h_i + 1))
            /\ h_i' = h_i + 1
            /\ UNCHANGED h_pc
       ELSE /\ h_pc' = "harvest"
            /\ UNCHANGED <<h_printed, h_i>>
    /\ UNCHANGED <<h_program, h_line, h_days, h_stack, h_rejected, h_accepted_at>>
    /\ UNCHANGED notHarvest

\* a call of recursive: recursive(days) from the function, recursive(days - 1)
\* from the frame on top; past the recursion limit the call raises
\* RecursionError, which no frame catches
RecursiveCall ==
    /\ h_program = "recursive"
    /\ \/ h_pc = "count" /\ h_stack = <<>>
       \/ /\ h_pc = "recursing"
          /\ h_stack[Len(h_stack)].at = "test"
          /\ h_stack[Len(h_stack)].days > 0
    /\ LET arg == IF h_stack = <<>> THEN h_days
                  ELSE h_stack[Len(h_stack)].days - 1
           caller == IF h_stack = <<>> THEN <<>>
                     ELSE [h_stack EXCEPT ![Len(h_stack)].at = "print"]
       IN IF BaseFrames + Len(h_stack) + 1 > RecursionLimit
          THEN /\ h_pc' = "crashed"
               /\ h_stack' = <<>>
          ELSE /\ h_pc' = "recursing"
               /\ h_stack' = Append(caller, [days |-> arg, at |-> "test"])
    /\ UNCHANGED <<h_program, h_line, h_days, h_i, h_printed, h_rejected, h_accepted_at>>
    /\ UNCHANGED notHarvest

\* the frame on top returns: after print(f"Day {days}") when its call came
\* back, at once when days > 0 is false
RecursiveReturn ==
    /\ h_program = "recursive" /\ h_pc = "recursing"
    /\ LET top == h_stack[Len(h_stack)]
       IN /\ top.at = "print" \/ top.days <= 0
          /\ h_printed' = IF top.at = "print"
                          THEN Append(h_printed, DayLine(top.days))
                          ELSE h_printed
    /\ h_stack' = SubSeq(h_stack, 1, Len(h_stack) - 1)
    /\ h_pc' = IF Len(h_stack) = 1 THEN "harvest" ELSE "recursing"
    /\ UNCHANGED <<h_program, h_line, h_days, h_i, h_rejected, h_accepted_at>>
    /\ UNCHANGED notHarvest

\* print("Harvest time!")
HarvestTime ==
    /\ h_pc = "harvest"
    /\ h_printed' = Append(h_printed, S_HarvestTime)
    /\ h_pc' = "done"
    /\ UNCHANGED <<h_program, h_line, h_days, h_stack, h_i, h_rejected, h_accepted_at>>
    /\ UNCHANGED notHarvest

(***************************************************************************)
(* Specifications                                                          *)
(***************************************************************************)
NextSpell == RecordSpell
SpellStart == InitSpell /\ GardenIdle /\ TournIdle /\ EliteIdle /\ DeckIdle /\ RetryIdle /\ PipeIdle /\ StreamIdle /\ HarvestIdle
SpecSpell == SpellStart /\ [][NextSpell]_vars

NextGarden == AddPlant \/ WaterPlants
GardenStart == SpellIdle /\ InitGarden /\ TournIdle /\ EliteIdle /\ DeckIdle /\ RetryIdle /\ PipeIdle /\ StreamIdle /\ HarvestIdle
SpecGarden == GardenStart /\ [][NextGarden]_vars

NextTourn == RegisterCard \/ CreateMatch \/ UpdateWins \/ UpdateLosses \/ GetLeaderboard
TournStart == SpellIdle /\ GardenIdle /\ InitTourn /\ EliteIdle /\ DeckIdle /\ RetryIdle /\ PipeIdle /\ StreamIdle /\ HarvestIdle
SpecTournament == TournStart /\ [][NextTourn]_vars

NextRegister == RegisterMany
RegisterStart == SpellIdle /\ GardenIdle /\ InitRegister /\ EliteIdle /\ DeckIdle /\ RetryIdle /\ PipeIdle /\ StreamIdle /\ HarvestIdle
SpecRegister == RegisterStart /\ [][NextRegister]_vars

\* cards change only through create_match
NextMatches == RegisterPlayers \/ CreateMatch \/ TournamentReport
MatchesStart == SpellIdle /\ GardenIdle /\ InitTourn /\ EliteIdle /\ DeckIdle /\ RetryIdle /\ PipeIdle /\ StreamIdle /\ HarvestIdle
SpecMatches == MatchesStart /\ [][NextMatches]_vars

NextCombat == TournamentDefend \/ EliteDefend
CombatStart == SpellIdle /\ GardenIdle /\ InitTourn /\ InitElite /\ DeckIdle /\ RetryIdle /\ PipeIdle /\ StreamIdle /\ HarvestIdle
SpecCombat == CombatStart /\ [][NextCombat]_vars

NextElite == CastSpell \/ ChannelMana
EliteStart == SpellIdle /\ GardenIdle /\ TournIdle /\ InitElite /\ DeckIdle /\ RetryIdle /\ PipeIdle /\ StreamIdle /\ HarvestIdle
SpecElite == EliteStart /\ [][NextElite]_vars

NextDeck ==
    DeckAddCard \/ DeckRemoveCard \/ DeckShuffle \/ StartLoop \/ LoopStep \/ ExtraDraw
DeckStart == SpellIdle /\ GardenIdle /\ TournIdle /\ EliteIdle /\ InitDeck /\ RetryIdle /\ PipeIdle /\ StreamIdle /\ HarvestIdle
SpecDeck == DeckStart /\ [][NextDeck]_vars
\* the loop of main runs on by itself
SpecDeckFair == SpecDeck /\ WF_vars(LoopStep)

NextRetry == RetryAttempt \/ RetryExhausted \/ WrapperCall
RetryStart == SpellIdle /\ GardenIdle /\ TournIdle /\ EliteIdle /\ DeckIdle /\ InitRetry /\ PipeIdle /\ StreamIdle /\ HarvestIdle
SpecRetry == RetryStart /\ [][NextRetry]_vars
\* the loop of the wrapper runs on
SpecRetryFair == SpecRetry /\ WF_vars(RetryAttempt) /\ WF_vars(RetryExhausted)

NextPipe == AddStage \/ Execute \/ GetPerformanceStats
PipeStart == SpellIdle /\ GardenIdle /\ TournIdle /\ EliteIdle /\ DeckIdle /\ RetryIdle /\ InitPipe /\ StreamIdle /\ HarvestIdle
SpecPipe == PipeStart /\ [][NextPipe]_vars

NextStream == SensorBatch \/ TransactionBatch \/ EventBatch
StreamStart == SpellIdle /\ GardenIdle /\ TournIdle /\ EliteIdle /\ DeckIdle /\ RetryIdle /\ PipeIdle /\ InitStream /\ HarvestIdle
SpecStream == StreamStart /\ [][NextStream]_vars

NextHarvest == ReadInput \/ IterativeStep \/ RecursiveCall \/ RecursiveReturn \/ HarvestTime
HarvestStart == SpellIdle /\ GardenIdle /\ TournIdle /\ EliteIdle /\ DeckIdle /\ RetryIdle /\ PipeIdle /\ StreamIdle /\ InitHarvest
SpecHarvest == HarvestStart /\ [][NextHarvest]_vars
\* the interpreter runs the program on
SpecHarvestFair ==
    SpecHarvest /\ WF_vars(IterativeStep) /\ WF_vars(RecursiveCall)
                /\ WF_vars(RecursiveReturn) /\ WF_vars(HarvestTime)

(***************************************************************************)
(* Claims                                                                  *)
(***************************************************************************)

\* C1: record_spell returns a "Spell recorded: ..." message exactly when the
\* ingredients contain one of fire, water, earth, air (case-insensitive), and
\* a "Spell rejected: ..." message for every other ingredients string.
C1_RecordedIffElement ==
    spell_result # <<>> =>
        /\ StartsWith(spell_result, S_Recorded) <=> HasElement(ingredients)
        /\ ~HasElement(ingredients) => StartsWith(spell_result, S_Rejected)

\* C2: water_tank stays within 0..100 over any sequence of add_plant and
\* water_plants calls, for any number of plants.
C2_TankInRange == water_tank \in 0..100

\* C3: every successful register_card call returns an ID that was not yet a
\* key of the card table and adds one entry, so the number of registered
\* cards equals the number of successful calls and no ID occurs twice.
C3_FreshIds ==
    /\ [][(t_ret'.op = "register_card" /\ t_ret'.outcome = "ok") =>
            /\ t_ret'.value \notin Keys(cards)
            /\ Keys(cards') = Keys(cards) \cup {t_ret'.value}
            /\ Len(cards') = Len(cards) + 1]_vars
    /\ [](/\ Len(cards) = registered_ok
          /\ Cardinality(Keys(cards)) = Len(cards))

\* two cards with the same last word, and one object registered twice
C3_Witness ==
    /\ t_ret.op = "register_card" /\ t_ret.outcome = "ok"
    /\ Len(cards) >= 3
    /\ \E i, j \in 1..Len(cards) : i < j /\ cards[i].obj = cards[j].obj
    /\ \E i, j \in 1..Len(cards) : cards[i].obj = "dragon" /\ cards[j].obj = "third"

\* C4: no resolved match has one and the same card object as both winner
\* and loser, whatever objects were registered.
C4_WinnerIsNotLoser ==
    (t_ret.op = "create_match" /\ t_ret.outcome = "ok") =>
        CardOf(cards, t_ret.value.winner) # CardOf(cards, t_ret.value.loser)

\* wins, losses and rating of every registered card are the same after the step
RegisteredUnchanged ==
    \A i \in 1..Len(cards) :
        /\ heap'[cards[i].obj].wins = heap[cards[i].obj].wins
        /\ heap'[cards[i].obj].losses = heap[cards[i].obj].losses
        /\ heap'[cards[i].obj].rating = heap[cards[i].obj].rating

\* C5: create_match raises ValueError when card1_id or card2_id is not
\* registered or when both are equal, and then matches_played and every
\* registered card's wins, losses and rating are unchanged.
C5_RejectedMatch ==
    [][(/\ t_ret'.op = "create_match"
        /\ \/ t_ret'.args[1] \notin Keys(cards)
           \/ t_ret'.args[2] \notin Keys(cards)
           \/ t_ret'.args[1] = t_ret'.args[2]) =>
            /\ t_ret'.outcome = "ValueError"
            /\ matches_played' = matches_played
            /\ cards' = cards
            /\ RegisteredUnchanged]_vars

\* a registered card is matched against itself after a match was played
C5_Witness ==
    /\ t_ret.op = "create_match" /\ t_ret.outcome = "ValueError"
    /\ t_ret.args[1] = t_ret.args[2]
    /\ t_ret.args[1] \in Keys(cards)
    /\ matches_played > 0

\* C6: a TournamentCard's rating is 1200 - (7 - cost) * 50 + 16 * wins -
\* 16 * losses after construction and after every update_wins, update_losses
\* and create_match; wins and losses are never negative; an update with a
\* negative argument raises ValueError and changes nothing.
C6_RatingFormula ==
    /\ [](\A o \in DOMAIN heap :
            /\ heap[o].rating =
                 1200 - (7 - heap[o].cost) * 50 + 16 * heap[o].wins - 16 * heap[o].losses
            /\ heap[o].wins >= 0
            /\ heap[o].losses >= 0)
    /\ [][(/\ t_ret'.op \in {"update_wins", "update_losses"}
           /\ t_ret'.args[2] < 0) =>
            /\ t_ret'.outcome = "ValueError"
            /\ UNCHANGED <<heap, cards, matches_played>>]_vars

\* a card that has won and lost, right after a match
C6_Witness ==
    /\ t_ret.op = "create_match" /\ t_ret.outcome = "ok"
    /\ \E o \in DOMAIN heap : heap[o].wins > 0 /\ heap[o].losses > 0

\* C7: get_leaderboard returns exactly one entry per registered card ID, with
\* ranks 1..n in list order and ratings non-increasing, and changes no card
\* and no platform counter.
C7_Leaderboard ==
    /\ [](t_ret.op = "get_leaderboard" =>
            LET lb == t_ret.value IN
            /\ Len(lb) = Cardinality(Keys(cards))
            /\ {lb[i].card_id : i \in 1..Len(lb)} = Keys(cards)
            /\ \A i \in 1..Len(lb) : lb[i].rank = i
            /\ \A i \in 1..Len(lb) : lb[i].rating = heap[CardOf(cards, lb[i].card_id)].rating
            /\ \A i \in 1..(Len(lb) - 1) : lb[i].rating >= lb[i + 1].rating)
    /\ [][t_ret'.op = "get_leaderboard" =>
            UNCHANGED <<heap, cards, matches_played>>]_vars

\* a leaderboard whose order differs from the registration order
C7_Witness ==
    /\ t_ret.op = "get_leaderboard"
    /\ Len(t_ret.value) >= 2
    /\ t_ret.value[1].rating > t_ret.value[2].rating
    /\ cards[1].id = t_ret.value[2].card_id
    /\ matches_played > 0

\* what C8 says of one defend call: health and defense before the call,
\* the argument d, the outcome, the returned dict and the health after it
DefendAsClaimed(health, defense, d, outcome, value, health_after) ==
    IF d >= 0
    THEN /\ outcome = "ok"
         /\ value.damage_blocked + value.damage_taken = d
         /\ value.damage_blocked <= defense
         /\ health_after = (IF health - value.damage_taken < 0 THEN 0
                            ELSE health - value.damage_taken)
         /\ value.still_alive <=> health_after > 0
    ELSE /\ outcome = "ValueError"
         /\ health_after = health

\* C8: for TournamentCard and EliteCard, defend(d) with d >= 0 reports
\* damage_blocked + damage_taken = d with damage_blocked <= defense, lowers
\* health by damage_taken but not below 0 and reports still_alive exactly
\* when the resulting health is above 0; health stays within 0..max_health;
\* defend with d < 0 raises ValueError and leaves health unchanged.
C8_Defend ==
    /\ [][/\ c_ret'.op = "elite_defend" =>
               DefendAsClaimed(elite.health, elite.defense, c_ret'.args[1],
                               c_ret'.outcome, c_ret'.value, elite'.health)
          /\ c_ret'.op = "tournament_defend" =>
               DefendAsClaimed(heap[c_ret'.args[1]].health, heap[c_ret'.args[1]].defense,
                               c_ret'.args[2], c_ret'.outcome, c_ret'.value,
                               heap'[c_ret'.args[1]].health)]_vars
    /\ [](/\ elite.health \in 0..elite.max_health
          /\ \A o \in DOMAIN heap : heap[o].health \in 0..heap[o].max_health)

\* a TournamentCard brought to 0 health by a blow larger than what was left,
\* after the EliteCard was hit too
C8_Witness ==
    /\ c_ret.op = "tournament_defend" /\ c_ret.outcome = "ok"
    /\ c_ret.value.damage_taken > 0
    /\ c_ret.value.damage_blocked > 0
    /\ ~c_ret.value.still_alive
    /\ heap[c_ret.args[1]].health = 0
    /\ heap[c_ret.args[1]].max_health < 2 * c_ret.value.damage_taken
    /\ elite.health < elite.max_health

\* C9: current_mana stays within 0..max_mana; a successful cast_spell lowers
\* it by exactly the mana_used it reports, a successful channel_mana raises
\* it by exactly the channeled amount it reports, and a call with an empty
\* spell name, empty targets or a non-positive amount raises ValueError and
\* leaves it unchanged.
C9_Mana ==
    /\ [](elite.current_mana \in 0..elite.max_mana)
    /\ [][/\ (c_ret'.op = "cast_spell" /\ c_ret'.outcome = "ok") =>
               /\ elite'.current_mana = elite.current_mana - c_ret'.value.mana_used
               /\ c_ret'.value.mana_used >= 0
          /\ (c_ret'.op = "channel_mana" /\ c_ret'.outcome = "ok") =>
               /\ elite'.current_mana = elite.current_mana + c_ret'.value.channeled
               /\ c_ret'.value.channeled >= 0
          /\ (/\ c_ret'.op = "cast_spell"
              /\ (c_ret'.args[1] = <<>> \/ c_ret'.args[2] = <<>>)) =>
               c_ret'.outcome = "ValueError"
          /\ (c_ret'.op = "channel_mana" /\ c_ret'.args[1] <= 0) =>
               c_ret'.outcome = "ValueError"
          /\ c_ret'.outcome = "ValueError" =>
               elite'.current_mana = elite.current_mana]_vars

\* a spell cast with less mana left than it costs
C9_Witness ==
    /\ c_ret.op = "cast_spell" /\ c_ret.outcome = "ok"
    /\ c_ret.value.mana_used > 0
    /\ c_ret.value.mana_used < elite.spell_power
    /\ c_ret.value.mana_used < 4
    /\ elite.current_mana = 0

\* C10: with no shuffle or removal, the draws from a Deck of n cards return
\* the cards in reverse order of their addition, each shortening the deck by
\* one, and every further draw returns None with the deck left empty; the
\* loop "while len(deck) > 0: draw_card()" ends, after exactly n draws.
C10_Draws ==
    /\ [](~disturbed =>
            \A i \in 1..Len(draws) :
                draws[i] = IF i <= Len(added) THEN added[Len(added) + 1 - i] ELSE None)
    /\ [](phase # "build" =>
            Len(deck_cards) = (IF n_start > Len(draws) THEN n_start - Len(draws) ELSE 0))
    /\ [](phase = "done" => deck_cards = <<>> /\ loop_draws = n_start)
    /\ [](\A i \in 1..Len(draws) : i > n_start => draws[i] = None)
    /\ (phase = "loop") ~> (phase = "done")

\* three cards drawn, the first added twice, then one more draw
C10_Witness ==
    /\ phase = "done"
    /\ ~disturbed
    /\ Len(added) = 3
    /\ added[1] = added[2] /\ added[1] # added[3]
    /\ Len(draws) = 4

\* every registered card is a distinct TournamentCard object
DistinctCards ==
    \A i, j \in 1..Len(cards) : cards[i].obj = cards[j].obj => i = j

Registered == {cards[i].obj : i \in 1..Len(cards)}

\* total of wins, of losses, over the entries of the card table
RECURSIVE WinsOver(_, _)
WinsOver(c, h) ==
    IF c = <<>> THEN 0 ELSE h[Head(c).obj].wins + WinsOver(Tail(c), h)

RECURSIVE LossesOver(_, _)
LossesOver(c, h) ==
    IF c = <<>> THEN 0 ELSE h[Head(c).obj].losses + LossesOver(Tail(c), h)

\* C14: when every registered card is a distinct object with no wins and
\* losses at registration and cards change only through create_match, then
\* matches_played equals the number of successful create_match calls, the
\* total of wins and the total of losses over the registered cards; each
\* successful match adds one win to exactly one card and one loss to exactly
\* one other card.
C14_MatchAccounting ==
    /\ [](DistinctCards =>
            /\ matches_played = WinsOver(cards, heap)
            /\ matches_played = LossesOver(cards, heap)
            /\ t_ret.op = "generate_tournament_report" =>
                 t_ret.value.matches_played = WinsOver(cards, heap))
    /\ [][DistinctCards' =>
            IF t_ret'.op = "create_match" /\ t_ret'.outcome = "ok"
            THEN /\ matches_played' = matches_played + 1
                 /\ \E w, l \in Registered :
                      /\ w # l
                      /\ heap'[w].wins = heap[w].wins + 1
                      /\ heap'[l].losses = heap[l].losses + 1
                      /\ \A o \in DOMAIN heap :
                           /\ o # w => heap'[o].wins = heap[o].wins
                           /\ o # l => heap'[o].losses = heap[o].losses
            ELSE /\ matches_played' = matches_played
                 /\ \A o \in DOMAIN heap :
                      /\ heap'[o].wins = heap[o].wins
                      /\ heap'[o].losses = heap[o].losses]_vars

\* three distinct cards, two matches, one card has won one and lost one
C14_Witness ==
    /\ DistinctCards
    /\ Len(cards) = 3
    /\ matches_played = 2
    /\ t_ret.op = "create_match" /\ t_ret.outcome = "ok"
    /\ \E o \in Registered : heap[o].wins = 1 /\ heap[o].losses = 1

\* the calls func has made in this wrapper call, and whether call i raised
Raised(i) == r_log[i].outcome # "return"
RaisedException(i) == r_log[i].outcome = "Exception"

\* what holds of any wrapper whatever the calls raise
RetryCommon ==
    \* at most max_attempts calls, each but the first after a failed call
    /\ Len(r_log) <= Max(r_max, 0)
    /\ \A i \in 1..(Len(r_log) - 1) : Raised(i)
    \* the k-th call is the first that does not raise: its result after k calls
    /\ \A k \in 1..Len(r_log) :
         ~Raised(k) => /\ r_pc = "returned"
                       /\ r_result = r_log[k].value
                       /\ k = Len(r_log)
    /\ r_pc = "returned" /\ (\A k \in 1..Len(r_log) : Raised(k)) =>
         /\ r_result = failed_message(r_max)
         /\ Len(r_log) = Max(r_max, 0)

\* C12 as stated: a wrapped function is called again only after a failed call
\* and at most max_attempts times; the first call that does not raise gives
\* the wrapper's result; when the first max_attempts calls all raise the
\* wrapper returns the failure message and never propagates the exception.
C12_AsStated ==
    /\ [](RetryCommon /\ r_pc # "propagated")
    /\ [](Len(r_log) = Max(r_max, 0) /\ (\A k \in 1..Len(r_log) : Raised(k))
            => r_pc \in {"loop", "returned"})
    /\ (r_pc = "loop") ~> (r_pc = "returned")

\* C12 amended: the same for calls that raise an Exception; a call raising a
\* BaseException that is not an Exception is the wrapper's last call and its
\* exception propagates.
C12_Retry ==
    /\ [](RetryCommon)
    /\ [](r_pc = "propagated" <=>
            Len(r_log) > 0 /\ r_log[Len(r_log)].outcome = "BaseException")
    /\ [](\A i \in 1..(Len(r_log) - 1) : RaisedException(i))
    /\ [](Len(r_log) = Max(r_max, 0) /\ (\A k \in 1..Len(r_log) : RaisedException(k))
            => r_pc \in {"loop", "returned"})
    /\ (r_pc = "loop") ~> (r_pc \in {"returned", "propagated"})

\* three attempts allowed, three calls raised an Exception, message returned
C12_Witness ==
    /\ r_max = 3 /\ Len(r_log) = 3
    /\ \A k \in 1..3 : RaisedException(k)
    /\ r_pc = "returned"
    /\ r_result = failed_message(3)

\* the stages entered by the execute call of this step: in the order they
\* were added, the first fed data and each next one the output before it,
\* every stage unless one raised, none after one that raised
RanInOrder ==
    LET ran == p_ret'.ran
    IN /\ Len(ran) <= Len(p_stages)
       /\ \A i \in 1..Len(ran) :
            /\ ran[i].stage = p_stages[i]
            /\ ran[i].input = IF i = 1 THEN p_ret'.data ELSE ran[i - 1].output
            /\ ran[i].outcome = stage_process(ran[i].stage, ran[i].input).outcome
            /\ ran[i].output = stage_process(ran[i].stage, ran[i].input).value
            /\ i < Len(ran) => ran[i].outcome = "return"
       /\ (\A i \in 1..Len(ran) : ran[i].outcome = "return") => Len(ran) = Len(p_stages)

\* the last stage entered by the execute call of this step
LastRan == p_ret'.ran[Len(p_ret'.ran)]

\* the output of the last stage that completed; the data when none did
PartialData ==
    IF Len(p_ret'.ran) = 1 THEN p_ret'.data
    ELSE p_ret'.ran[Len(p_ret'.ran) - 1].output

CountedAsBatch ==
    /\ p_batches_processed' = p_batches_processed + 1
    /\ p_error_count' = p_error_count

CountedAsError ==
    /\ p_error_count' = p_error_count + 1
    /\ p_batches_processed' = p_batches_processed
    /\ p_ret'.outcome = "return"
    /\ p_ret'.value.t = "dict"
    /\ DOMAIN p_ret'.value.d = {"error", "partial_data"}
    /\ p_ret'.value.d.error = LastRan.error
    /\ p_ret'.value.d.partial_data = PartialData

\* execute on a pipeline without stages
NoStagesRaises ==
    p_ret'.op = "execute" /\ p_stages = <<>> =>
        /\ p_ret'.outcome = "ValueError"
        /\ UNCHANGED <<p_batches_processed, p_error_count>>

\* C11 as stated: an execute call on a pipeline with stages runs them in
\* order, each fed the output of the one before, and increments exactly one
\* counter: batches_processed when every stage returned, error_count when a
\* stage raised (result: a dict with the error text and the partial data);
\* batches_processed + error_count is the number of such calls; without
\* stages execute raises ValueError and changes neither counter.
C11_AsStated ==
    /\ [][p_executes' = p_executes + 1 =>
            /\ RanInOrder
            /\ IF LastRan.outcome = "return" THEN CountedAsBatch ELSE CountedAsError]_vars
    /\ [](p_batches_processed + p_error_count = p_executes)
    /\ [][NoStagesRaises]_vars

\* C11 amended: the same for a stage that raises an Exception; when a stage
\* raises a BaseException that is not an Exception, the later stages are not
\* run, the exception propagates and neither counter changes, so
\* batches_processed + error_count is the number of execute calls on a
\* pipeline with stages that returned.
C11_Execute ==
    /\ [][p_executes' = p_executes + 1 =>
            /\ RanInOrder
            /\ CASE LastRan.outcome = "return" -> CountedAsBatch
                 [] LastRan.outcome = "Exception" -> CountedAsError
                 [] OTHER -> /\ p_ret'.outcome = "BaseException"
                             /\ UNCHANGED <<p_batches_processed, p_error_count>>]_vars
    /\ [](p_batches_processed + p_error_count = p_executes - p_propagated)
    /\ [](p_ret.op = "get_performance_stats" =>
            p_ret.value.batches_processed + p_ret.value.error_count
                = p_executes - p_propagated)
    /\ [][NoStagesRaises]_vars

\* one batch counted, then a stage added that raises after the first stage
\* completed: the error is counted and the partial data is that stage's output
C11_Witness ==
    /\ p_batches_processed = 1 /\ p_error_count = 1 /\ p_executes = 2
    /\ p_ret.op = "execute" /\ p_ret.outcome = "return"
    /\ Len(p_ret.ran) = 2
    /\ p_ret.ran[1].stage = "InputStage"
    /\ p_ret.ran[2].outcome = "Exception"
    /\ p_ret.value.d.partial_data = p_ret.ran[1].output

\* C13: a process_batch call of SensorStream, TransactionStream or
\* EventStream that returns an "Error processing ..." message, and a call
\* with an empty batch, leave batches_processed, total_items and the
\* stream's own totals unchanged.
C13_FailedBatchNotCounted ==
    [][stream_calls' = stream_calls + 1 /\
       (IsErrorMessage(stream_ret'.message) \/ Falsy(stream_ret'.data_batch))
         => UNCHANGED <<sensor_stream, transaction_stream, event_stream>>]_vars

\* 'Day 1', ..., 'Day n', 'Harvest time!'
HarvestLines(n) == [k \in 1..n |-> DayLine(k)] \o <<S_HarvestTime>>

\* the lines printed since the input was accepted
Counted == SubSeq(h_printed, h_accepted_at + 1, Len(h_printed))

IsHarvestLine(line) == line = S_HarvestTime \/ StartsWith(line, S_Day)

\* C15: for every accepted input n >= 0 both programs terminate having
\* printed 'Day 1', ..., 'Day n' in ascending order and then 'Harvest time!';
\* a negative or non-numeric input prints none of these lines and is asked
\* again.
C15_SameLines ==
    /\ [](h_pc \notin {"idle", "input"} =>
            /\ h_days >= 0
            /\ Len(Counted) <= h_days + 1
            /\ Counted = SubSeq(HarvestLines(h_days), 1, Len(Counted))
            /\ h_pc = "done" <=> Counted = HarvestLines(h_days))
    /\ [](h_pc = "input" => \A i \in 1..Len(h_printed) : ~IsHarvestLine(h_printed[i]))
    /\ [][h_pc = "input" /\ h_rejected' = h_rejected + 1 =>
            /\ ParseInt(h_line').outcome = "ValueError" \/ ParseInt(h_line').value < 0
            /\ h_pc' = "input"]_vars
    /\ [][h_pc = "input" /\ h_pc' = "count" =>
            /\ ParseInt(h_line').outcome = "ok"
            /\ h_days' = ParseInt(h_line').value]_vars
    /\ (h_pc = "count") ~> (h_pc = "done")

====
